---- MODULE Spec2Model ----
(***************************************************************************)
(* Model of camping.py: the recreation.gov campsite availability checker.  *)
(*                                                                         *)
(* Encoding of Python values:                                              *)
(*   None            the empty tuple << >>; a present value v is <<v>>     *)
(*   datetime        [year, month, day] (the time of day is always 0)      *)
(*   date string     <<year, month, day, format>>, the fields strftime     *)
(*                   writes followed by the format that wrote them         *)
(*   dict            a sequence of entries in insertion order, keys unique *)
(***************************************************************************)
EXTENDS Integers, Sequences, FiniteSets, TLC

(***************************************************************************)
(* Bounds of the model.                                                    *)
(***************************************************************************)
MaxLen == 4          \* longest availability list given to the analyzer
MaxDayOffset == 4    \* available dates lie in BaseDate .. BaseDate + MaxDayOffset
MaxSpan == 5         \* end_date is at most start_date + MaxSpan days
MaxNights == 4       \* largest --nights value tried
MaxParks == 2        \* longest list of parks given to main
MaxGroups == 2       \* most groups in the parks file

(***************************************************************************)
(* Program constants.                                                      *)
(***************************************************************************)
INPUT_DATE_FORMAT == "%Y-%m-%d"
ISO_DATE_FORMAT_REQUEST == "%Y-%m-%dT00:00:00.000Z"
ISO_DATE_FORMAT_RESPONSE == "%Y-%m-%dT00:00:00Z"
DELAY_TIME_SEC == 20

None == << >>
Some(v) == <<v>>

(***************************************************************************)
(* The proleptic Gregorian calendar of datetime.                           *)
(***************************************************************************)
IsLeap(y) == (y % 4 = 0) /\ ((y % 100 # 0) \/ (y % 400 = 0))

DaysInMonth(y, m) ==
    IF m = 2 THEN (IF IsLeap(y) THEN 29 ELSE 28)
    ELSE IF m \in {4, 6, 9, 11} THEN 30 ELSE 31

DaysBeforeYear(y) ==
    (y - 1) * 365 + ((y - 1) \div 4) - ((y - 1) \div 100) + ((y - 1) \div 400)

RECURSIVE DaysBeforeMonth(_, _)
DaysBeforeMonth(y, m) ==
    IF m = 1 THEN 0 ELSE DaysBeforeMonth(y, m - 1) + DaysInMonth(y, m - 1)

DateTime(y, m, d) == [year |-> y, month |-> m, day |-> d]

\* datetime.toordinal(): 0001-01-01 is day 1
toordinal(dt) == DaysBeforeYear(dt.year) + DaysBeforeMonth(dt.year, dt.month) + dt.day

\* datetime.fromordinal(n)
fromordinal(n) ==
    LET est == (((n - 1) * 400) \div 146097) + 1    \* 146097 days in 400 years
        y == CHOOSE yy \in (est - 1)..(est + 1) :
                 DaysBeforeYear(yy) < n /\ n <= DaysBeforeYear(yy + 1)
        m == CHOOSE mm \in 1..12 :
                 /\ DaysBeforeYear(y) + DaysBeforeMonth(y, mm) < n
                 /\ n <= DaysBeforeYear(y) + DaysBeforeMonth(y, mm) + DaysInMonth(y, mm)
    IN DateTime(y, m, n - DaysBeforeYear(y) - DaysBeforeMonth(y, m))

\* datetime.weekday(): Monday is 0, Sunday is 6
weekday(dt) == (toordinal(dt) + 6) % 7

\* dt - timedelta(days=i)
MinusDays(dt, i) == fromordinal(toordinal(dt) - i)

\* (end_date - start_date).days
DaysBetween(end, start) == toordinal(end) - toordinal(start)

\* format_date(date_object, format_string)
format_date(date_object, format_string) ==
    <<date_object.year, date_object.month, date_object.day, format_string>>

\* datetime.strptime(dstr, format): defined when dstr was written in that format
strptime(dstr, format_string) == DateTime(dstr[1], dstr[2], dstr[3])

(***************************************************************************)
(* get_num_available_sites and consecutive_nights.                         *)
(***************************************************************************)
\* dates0 counting back from end_date itself: range(0, num_days)
dates0_FromEnd(end_date, num_days) ==
    IF num_days >= 1 THEN [i \in 1..num_days |-> MinusDays(end_date, i - 1)] ELSE << >>

\* the list comprehension of line 137: end_date - 1 day, ..., end_date - num_days days
dates0(end_date, num_days) ==
    IF num_days >= 1 THEN [i \in 1..num_days |-> MinusDays(end_date, i)] ELSE << >>

\* the weekday test letting Thursday through
KeepDay_FromThursday(d) == weekday(d) > 2 /\ weekday(d) <= 6

\* the weekday test of line 140
KeepDay(d) == weekday(d) > 3 /\ weekday(d) <= 6

\* the set `dates` of line 143
DateSet(start_date, end_date) ==
    LET kept == SelectSeq(dates0(end_date, DaysBetween(end_date, start_date)), KeepDay)
    IN {format_date(kept[i], ISO_DATE_FORMAT_RESPONSE) : i \in 1..Len(kept)}

\* lines 145-146: nights not in range(1, num_days + 1) => nights = num_days
EffectiveNights(nights, num_days) ==
    IF nights # None /\ nights[1] \in 1..num_days THEN nights[1] ELSE num_days

\* lines 151-155: the dates of one site that are in `dates`, in list order
DesiredAvailable(availabilities, dates) ==
    SelectSeq(availabilities, LAMBDA date : date \in dates)

\* itertools.groupby(ordinal_dates, lambda x: x - next(c)) with c = count():
\* adjacent elements with equal key x - index form one group
RECURSIVE groupby(_, _, _)
groupby(ordinal_dates, i, acc) ==
    IF i > Len(ordinal_dates) THEN acc
    ELSE LET key == ordinal_dates[i] - (i - 1)
             n   == Len(acc)
         IN IF n > 0 /\ acc[n].key = key
            THEN groupby(ordinal_dates, i + 1,
                         [acc EXCEPT ![n].group = Append(@, ordinal_dates[i])])
            ELSE groupby(ordinal_dates, i + 1,
                         Append(acc, [key |-> key, group |-> <<ordinal_dates[i]>>]))

\* the length test one night short
Qualifies_OneShort(l_len, nights) == l_len >= nights - 1

\* line 175: a group is an option when it is long enough
Qualifies(l_len, nights) == l_len >= nights

\* lines 167-178: the lists l_d printed as "Option k", in print order
Options(available, nights) ==
    LET ordinal_dates == [i \in 1..Len(available) |->
                             toordinal(strptime(available[i], ISO_DATE_FORMAT_RESPONSE))]
        groups == groupby(ordinal_dates, 1, << >>)
        good   == SelectSeq(groups, LAMBDA g : Qualifies(Len(g.group), nights))
    IN [k \in 1..Len(good) |->
           [j \in 1..Len(good[k].group) |->
               format_date(fromordinal(good[k].group[j]), INPUT_DATE_FORMAT)]]

\* consecutive_nights(available, nights): ret > 0
consecutive_nights(available, nights) == Len(Options(available, nights)) > 0

\* one iteration of the loop of lines 149-158
SiteResult(entry, dates, nights) ==
    LET desired_available == DesiredAvailable(entry.availabilities, dates)
        counted == desired_available # << >> /\ consecutive_nights(desired_available, nights)
    IN [site |-> entry.site,
        desired_available |-> desired_available,
        options |-> IF desired_available # << >>
                    THEN Options(desired_available, nights) ELSE << >>,
        counted |-> counted]

\* get_num_available_sites(park_information, start_date, end_date, nights):
\* the returned pair with the day set, the nights used and what each site printed
get_num_available_sites(info, start, end, n) ==
    LET num_days == DaysBetween(end, start)
        dates    == DateSet(start, end)
        eff      == EffectiveNights(n, num_days)
        sites    == [i \in 1..Len(info) |-> SiteResult(info[i], dates, eff)]
    IN [num_available |-> Cardinality({i \in 1..Len(info) : sites[i].counted}),
        maximum |-> Len(info),
        dates |-> dates,
        nights |-> eff,
        sites |-> sites]

(***************************************************************************)
(* send_request, get_park_information and get_name_of_site.                *)
(* An HTTP response is [status_code, json]; requests.get raising is a      *)
(* separate outcome of the request.                                        *)
(***************************************************************************)
\* lines 58-64
send_request(resp) == IF resp.status_code # 200 THEN None ELSE Some(resp.json)

\* rrule until taken as exclusive
InUntil_Exclusive(month_date, until) == toordinal(month_date) < toordinal(until)

\* rrule stops after `until`: a date equal to it is still produced
InUntil(month_date, until) == toordinal(month_date) <= toordinal(until)

NextMonth(dt) ==
    IF dt.month = 12 THEN DateTime(dt.year + 1, 1, 1) ELSE DateTime(dt.year, dt.month + 1, 1)

\* rrule.rrule(rrule.MONTHLY, dtstart=month_date, until=until)
RECURSIVE rrule_monthly(_, _)
rrule_monthly(month_date, until) ==
    IF InUntil(month_date, until)
    THEN <<month_date>> \o rrule_monthly(NextMonth(month_date), until)
    ELSE << >>

\* lines 91-92
Months(start, end) == rrule_monthly(DateTime(start.year, start.month, 1), end)

\* line 97: the start_date parameter of one availability request
MonthParam(month_date) == format_date(month_date, ISO_DATE_FORMAT_REQUEST)

\* a failed month throws away the months fetched before it
AppendResponse_Reset(api_data, resp) ==
    IF resp # None THEN Append(api_data, resp[1]) ELSE << >>

\* lines 101-102
AppendResponse(api_data, resp) ==
    IF resp # None THEN Append(api_data, resp[1]) ELSE api_data

\* the filter without the campsite type test
KeepDate_AnyType(availability_value, campsite_type, declared_type) ==
    availability_value = "Available"

\* lines 111-114: campsite_type is None or a string, and "" is falsy
KeepDate(availability_value, campsite_type, declared_type) ==
    /\ availability_value = "Available"
    /\ ~(campsite_type # None /\ campsite_type[1] # "" /\ campsite_type[1] # declared_type)

\* lines 109-115: the list `available` of one campsite of one month
Available(campsite_data, campsite_type) ==
    LET kept == SelectSeq(campsite_data.availabilities,
                          LAMBDA e : KeepDate(e.status, campsite_type, campsite_data.campsite_type))
    IN [i \in 1..Len(kept) |-> kept[i].date]

\* lines 116-118: data.setdefault(campsite_id, []) += available, when available
Extend(data, campsite_id, available) ==
    IF available = << >> THEN data
    ELSE IF \E i \in 1..Len(data) : data[i].site = campsite_id
         THEN [i \in 1..Len(data) |->
                  IF data[i].site = campsite_id
                  THEN [data[i] EXCEPT !.availabilities = @ \o available]
                  ELSE data[i]]
         ELSE Append(data, [site |-> campsite_id, availabilities |-> available])

\* line 108: the campsites of one month, from the k-th on
RECURSIVE CollapseMonth(_, _, _, _)
CollapseMonth(data, campsites, k, campsite_type) ==
    IF k > Len(campsites) THEN data
    ELSE CollapseMonth(Extend(data, campsites[k].campsite_id,
                              Available(campsites[k], campsite_type)),
                       campsites, k + 1, campsite_type)

\* lines 106-120: the months of api_data, from the m-th on
RECURSIVE Collapse(_, _, _, _)
Collapse(data, api_data, m, campsite_type) ==
    IF m > Len(api_data) THEN data
    ELSE Collapse(CollapseMonth(data, api_data[m].campsites, 1, campsite_type),
                  api_data, m + 1, campsite_type)

\* lines 125-128: None, or the facility name of the response
get_name_of_site(resp) ==
    IF send_request(resp) = None THEN None ELSE Some(send_request(resp)[1].facility_name)

\* the flag takes the last park's result
Availabilities_Last(availabilities, current) == current # 0

\* lines 213-215: the flag is set by any park with a non-zero count
Availabilities(availabilities, current) == IF current # 0 THEN TRUE ELSE availabilities

\* line 318 and line 328: what main's result does to `code`
CodeGrouped(code, found) == IF found THEN code + 0 ELSE code + 1
CodeDirect(found) == IF found THEN 0 ELSE 1

(***************************************************************************)
(* State.                                                                  *)
(***************************************************************************)
VARIABLES
    pc,                 \* position in the program
    args,               \* [parks, parks_dict, campsite_type] of the command line
    start_date,         \* args.start_date, the start_date of main, a datetime
    end_date,           \* args.end_date, the end_date of main, a datetime
    nights,             \* args.nights: None or an integer
    gi,                 \* position in parks_dict.keys(); 0 in park-list mode
    code,               \* the variable code of __main__
    parks,              \* the argument of main
    idx,                \* position of park_id in parks
    availabilities,     \* the flag of main
    months,             \* get_park_information: the list months
    resps,              \* get_park_information: what send_request returned, month by month
    api_data,           \* get_park_information: the list api_data
    park_information,   \* dict site -> list of date strings
    ret,                \* None or what get_num_available_sites returned and printed
    log,                \* the groups searched, requests sent and sleeps taken, in order
    reports,            \* the park and count of each "site(s) available" line printed
    skipped,            \* the parks whose name request returned None
    errors,             \* the groups (0: the park list) whose exception was caught
    exit_code           \* None or the status the process exits with

vars == <<pc, args, start_date, end_date, nights, gi, code, parks, idx, availabilities,
          months, resps, api_data, park_information, ret, log, reports, skipped,
          errors, exit_code>>

\* the locals of one iteration of the loop of main
locals == <<months, resps, api_data, park_information, ret>>

\* the locals are dead once the iteration is left
LocalsDropped ==
    /\ months' = << >> /\ resps' = << >> /\ api_data' = << >>
    /\ park_information' = << >> /\ ret' = None

runvars == <<args, gi, code, parks, idx, availabilities, months, resps, api_data,
             log, reports, skipped, errors, exit_code>>

(***************************************************************************)
(* Inputs of the analyzer.                                                 *)
(***************************************************************************)
BaseDate == DateTime(2024, 6, 27)    \* a Thursday

PlusDays(dt, i) == fromordinal(toordinal(dt) + i)

AvailableStrings ==
    {format_date(PlusDays(BaseDate, k), ISO_DATE_FORMAT_RESPONSE) : k \in 0..MaxDayOffset}

\* the lists of at most n different elements of S, in every order
SeqsUpTo(S, n) ==
    {s \in UNION {[1..k -> S] : k \in 0..n} :
        \A i \in 1..Len(s) : \A j \in 1..Len(s) : s[i] = s[j] => i = j}

NightsArgs == {None} \cup {Some(n) : n \in 1..MaxNights}

\* site "B" is free on the Friday, Saturday and Sunday after BaseDate, in that order
WeekendSite ==
    [site |-> "B",
     availabilities |-> [k \in 1..3 |-> format_date(PlusDays(BaseDate, k), ISO_DATE_FORMAT_RESPONSE)]]

\* no site, or site "A" with any list of at most MaxLen different dates, alone or
\* followed by "B"
AnalyzerMaps ==
    {<< >>}
    \cup {<<[site |-> "A", availabilities |-> a]>> : a \in SeqsUpTo(AvailableStrings, MaxLen)}
    \cup {<<[site |-> "A", availabilities |-> a], WeekendSite>> :
              a \in SeqsUpTo(AvailableStrings, MaxLen)}

InitAnalyzer ==
    /\ pc = "call"
    /\ park_information \in AnalyzerMaps
    /\ start_date \in {BaseDate, PlusDays(BaseDate, 1)}
    /\ \E k \in (0 - 1)..MaxSpan : end_date = PlusDays(start_date, k)
    /\ nights \in NightsArgs
    /\ ret = None
    /\ args = [parks |-> None, parks_dict |-> None, campsite_type |-> None]
    /\ gi = 0 /\ code = 0 /\ parks = << >> /\ idx = 0 /\ availabilities = FALSE
    /\ months = << >> /\ resps = << >> /\ api_data = << >>
    /\ log = << >> /\ reports = << >> /\ skipped = {} /\ errors = {}
    /\ exit_code = None

CallGetNumAvailableSites ==
    /\ pc = "call"
    /\ ret' = Some(get_num_available_sites(park_information, start_date, end_date, nights))
    /\ pc' = "return"
    /\ UNCHANGED <<park_information, start_date, end_date, nights, runvars>>

NextAnalyzer == CallGetNumAvailableSites

SpecAnalyzer == InitAnalyzer /\ [][NextAnalyzer]_vars

(***************************************************************************)
(* Inputs of a run of the program, and what the upstream service may       *)
(* answer.                                                                  *)
(***************************************************************************)
STANDARD_NONELECTRIC == "STANDARD NONELECTRIC"
TENT_ONLY == "TENT ONLY"

RunStart == PlusDays(BaseDate, 1)    \* Friday 2024-06-28

\* the ranges asked for: inside June, from June to the first of July, and over
\* the end of the year
RunRanges ==
    {<<RunStart, PlusDays(RunStart, 2)>>,
     <<RunStart, PlusDays(RunStart, 3)>>,
     <<DateTime(2024, 12, 28), DateTime(2025, 1, 5)>>}

\* --nights is absent or 1
RunNights == {None, Some(1)}

\* the days on which the service reports on its campsites: 2024-06-30, 2024-07-01
PayloadDates == <<PlusDays(RunStart, 2), PlusDays(RunStart, 3)>>

ParkList(n) == [k \in 1..n |-> k]

\* a parks file: no group, or a first group of any length followed by groups of
\* one park
ParksDicts ==
    {<< >>} \cup
    {[k \in 1..g |-> [parks |-> ParkList(IF k = 1 THEN n ELSE 1)]] :
        g \in 1..MaxGroups, n \in 0..MaxParks}

ArgsSet ==
    {[parks |-> Some(ParkList(n)), parks_dict |-> None, campsite_type |-> t] :
        n \in 1..MaxParks, t \in {None, Some(STANDARD_NONELECTRIC)}}
    \cup
    {[parks |-> None, parks_dict |-> Some(d), campsite_type |-> t] :
        d \in ParksDicts, t \in {None, Some(STANDARD_NONELECTRIC)}}

Grouped == args.parks = None

\* campsite "A" is STANDARD NONELECTRIC and campsite "B" is TENT ONLY; a month's
\* payload gives each a status for every day of PayloadDates in that month
DaysOfMonth(month_date) ==
    SelectSeq(PayloadDates,
              LAMBDA d : d.year = month_date.year /\ d.month = month_date.month)

Campsite(id, type, days, status) ==
    [campsite_id |-> id, campsite_type |-> type,
     availabilities |-> [i \in 1..Len(days) |->
         [date |-> format_date(days[i], ISO_DATE_FORMAT_RESPONSE), status |-> status[i]]]]

Payloads(month_date) ==
    LET days == DaysOfMonth(month_date)
        St   == [1..Len(days) -> {"Available", "Reserved"}]
    IN {[campsites |-> <<Campsite("A", STANDARD_NONELECTRIC, days, sa),
                         Campsite("B", TENT_ONLY, days, sb)>>] : sa \in St, sb \in St}

NotFound == [status_code |-> 404, json |-> << >>]

AvailabilityResponses(month_date) ==
    {NotFound} \cup {[status_code |-> 200, json |-> p] : p \in Payloads(month_date)}

NameResponses ==
    {NotFound, [status_code |-> 200, json |-> [facility_name |-> "CAMP"]]}

Event(kind, month) == [kind |-> kind, group |-> gi, park |-> idx, month |-> month]

InitRun ==
    /\ args \in ArgsSet
    /\ \E r \in RunRanges : start_date = r[1] /\ end_date = r[2]
    /\ nights \in RunNights
    /\ pc = IF Grouped THEN "group_loop" ELSE "direct"
    /\ gi = IF Grouped THEN 1 ELSE 0
    /\ code = 0 /\ parks = << >> /\ idx = 0 /\ availabilities = FALSE
    /\ months = << >> /\ resps = << >> /\ api_data = << >>
    /\ park_information = << >> /\ ret = None
    /\ log = << >> /\ reports = << >> /\ skipped = {} /\ errors = {}
    /\ exit_code = None

(***************************************************************************)
(* __main__                                                                *)
(***************************************************************************)
\* lines 315-318: the next group of the file; main is called on its parks
SearchGroup ==
    /\ pc = "group_loop" /\ gi <= Len(args.parks_dict[1])
    /\ parks' = args.parks_dict[1][gi].parks
    /\ log' = Append(log, [kind |-> "search", group |-> gi, park |-> 0, month |-> None])
    /\ pc' = "main"
    /\ UNCHANGED <<args, start_date, end_date, nights, gi, code, idx, availabilities,
                   months, resps, api_data, park_information, ret, reports,
                   skipped, errors, exit_code>>

\* lines 323-324: sys.exit(code) after the last group
ExitGrouped ==
    /\ pc = "group_loop" /\ gi > Len(args.parks_dict[1])
    /\ exit_code' = Some(code)
    /\ pc' = "exit"
    /\ UNCHANGED <<args, start_date, end_date, nights, gi, code, parks, idx,
                   availabilities, months, resps, api_data, park_information, ret,
                   log, reports, skipped, errors>>

\* line 328: main(parks)
CallMainDirect ==
    /\ pc = "direct"
    /\ parks' = args.parks[1]
    /\ pc' = "main"
    /\ UNCHANGED <<args, start_date, end_date, nights, gi, code, idx, availabilities,
                   months, resps, api_data, park_information, ret, log, reports,
                   skipped, errors, exit_code>>

\* line 318: main returned in grouped mode
MainReturnGrouped ==
    /\ pc = "park_loop" /\ idx > Len(parks) /\ Grouped
    /\ code' = CodeGrouped(code, availabilities)
    /\ gi' = gi + 1
    /\ pc' = "group_loop"
    /\ UNCHANGED <<args, start_date, end_date, nights, parks, idx, availabilities,
                   months, resps, api_data, park_information, ret, log, reports,
                   skipped, errors, exit_code>>

\* lines 328-330: main returned in park-list mode, sys.exit(code)
MainReturnDirect ==
    /\ pc = "park_loop" /\ idx > Len(parks) /\ ~Grouped
    /\ code' = CodeDirect(availabilities)
    /\ exit_code' = Some(code')
    /\ pc' = "exit"
    /\ UNCHANGED <<args, start_date, end_date, nights, gi, parks, idx, availabilities,
                   months, resps, api_data, park_information, ret, log, reports,
                   skipped, errors>>

\* lines 319-321: the exception of a group is caught; the loop goes on
CatchGrouped ==
    /\ pc = "raised" /\ Grouped
    /\ errors' = errors \cup {gi}
    /\ gi' = gi + 1
    /\ pc' = "group_loop"
    /\ LocalsDropped
    /\ UNCHANGED <<args, start_date, end_date, nights, code, parks, idx, availabilities,
                   log, reports, skipped, exit_code>>

\* lines 331-334: the exception is logged and raised again; the interpreter
\* exits with status 1
CatchDirect ==
    /\ pc = "raised" /\ ~Grouped
    /\ errors' = errors \cup {gi}
    /\ exit_code' = Some(1)
    /\ pc' = "exit"
    /\ LocalsDropped
    /\ UNCHANGED <<args, start_date, end_date, nights, gi, code, parks, idx,
                   availabilities, log, reports, skipped>>

(***************************************************************************)
(* main(parks); args carries both dates, so lines 193-194 set the range    *)
(***************************************************************************)
\* lines 186-196
MainEnter ==
    /\ pc = "main"
    /\ availabilities' = FALSE
    /\ idx' = 1
    /\ pc' = "park_loop"
    /\ UNCHANGED <<args, start_date, end_date, nights, gi, code, parks, months, resps,
                   api_data, park_information, ret, log, reports, skipped, errors,
                   exit_code>>

\* line 198 and lines 91-95: the next park; get_park_information lists its months
ParkBegin ==
    /\ pc = "park_loop" /\ idx <= Len(parks)
    /\ months' = Months(start_date, end_date)
    /\ api_data' = << >>
    /\ resps' = << >>
    /\ pc' = "fetch"
    /\ UNCHANGED <<args, start_date, end_date, nights, gi, code, parks, idx,
                   availabilities, park_information, ret, log, reports, skipped,
                   errors, exit_code>>

\* lines 96-102: the request of the next month is answered
AvailabilityRequest ==
    /\ pc = "fetch" /\ Len(resps) < Len(months)
    /\ LET month_date == months[Len(resps) + 1]
       IN /\ log' = Append(log, Event("availability", MonthParam(month_date)))
          /\ \E response \in AvailabilityResponses(month_date) :
                /\ resps' = Append(resps, send_request(response))
                /\ api_data' = AppendResponse(api_data, send_request(response))
    /\ UNCHANGED <<pc, args, start_date, end_date, nights, gi, code, parks, idx,
                   availabilities, months, park_information, ret, reports, skipped,
                   errors, exit_code>>

\* line 57: requests.get raises
AvailabilityRequestRaises ==
    /\ pc = "fetch" /\ Len(resps) < Len(months)
    /\ log' = Append(log, Event("availability", MonthParam(months[Len(resps) + 1])))
    /\ pc' = "raised"
    /\ UNCHANGED <<args, start_date, end_date, nights, gi, code, parks, idx,
                   availabilities, months, resps, api_data, park_information, ret,
                   reports, skipped, errors, exit_code>>

\* lines 104-120: the months are collapsed into the dict that is returned
CollapseData ==
    /\ pc = "fetch" /\ Len(resps) = Len(months)
    /\ park_information' = Collapse(<< >>, api_data, 1, args.campsite_type)
    /\ pc' = "name"
    /\ UNCHANGED <<args, start_date, end_date, nights, gi, code, parks, idx,
                   availabilities, months, resps, api_data, ret, log, reports, skipped,
                   errors, exit_code>>

\* lines 207-222: the name request is answered; without a name the park is left
\* by `continue`, with one its sites are counted and the line is printed
NameRequest ==
    /\ pc = "name"
    /\ log' = Append(log, Event("metadata", None))
    /\ \E response \in NameResponses :
          LET name_of_site == get_name_of_site(response)
              result == get_num_available_sites(park_information, start_date,
                                                end_date, nights)
          IN IF name_of_site = None
             THEN /\ skipped' = skipped \cup {<<gi, idx>>}
                  /\ idx' = idx + 1
                  /\ pc' = "park_loop"
                  /\ LocalsDropped
                  /\ UNCHANGED <<availabilities, reports>>
             ELSE /\ ret' = Some(result)
                  /\ availabilities' = Availabilities(availabilities, result.num_available)
                  /\ reports' = Append(reports,
                         [group |-> gi, park |-> idx, current |-> result.num_available])
                  /\ pc' = "sleep"
                  /\ UNCHANGED <<skipped, idx, months, resps, api_data, park_information>>
    /\ UNCHANGED <<args, start_date, end_date, nights, gi, code, parks, errors, exit_code>>

\* line 57, from get_name_of_site: requests.get raises
NameRequestRaises ==
    /\ pc = "name"
    /\ log' = Append(log, Event("metadata", None))
    /\ pc' = "raised"
    /\ UNCHANGED <<args, start_date, end_date, nights, gi, code, parks, idx,
                   availabilities, months, resps, api_data, park_information, ret,
                   reports, skipped, errors, exit_code>>

\* line 224: time.sleep(DELAY_TIME_SEC), then the next park
Sleep ==
    /\ pc = "sleep"
    /\ log' = Append(log, [kind |-> "sleep", group |-> gi, park |-> idx,
                           month |-> <<DELAY_TIME_SEC>>])
    /\ idx' = idx + 1
    /\ pc' = "park_loop"
    /\ LocalsDropped
    /\ UNCHANGED <<args, start_date, end_date, nights, gi, code, parks, availabilities,
                   reports, skipped, errors, exit_code>>

NextRun ==
    \/ SearchGroup
    \/ ExitGrouped
    \/ CallMainDirect
    \/ MainReturnGrouped
    \/ MainReturnDirect
    \/ CatchGrouped
    \/ CatchDirect
    \/ MainEnter
    \/ ParkBegin
    \/ AvailabilityRequest
    \/ AvailabilityRequestRaises
    \/ CollapseData
    \/ NameRequest
    \/ NameRequestRaises
    \/ Sleep

SpecRun == InitRun /\ [][NextRun]_vars

(***************************************************************************)
(* Properties of get_num_available_sites.                                  *)
(***************************************************************************)
Returned == pc = "return"

Ord(dstr) == toordinal(strptime(dstr, ISO_DATE_FORMAT_RESPONSE))

NumDays == toordinal(end_date) - toordinal(start_date)

\* the nights a caller is entitled to: its own value when in 1..NumDays, else NumDays
NightsWanted ==
    IF nights = None THEN NumDays
    ELSE IF 1 <= nights[1] /\ nights[1] <= NumDays THEN nights[1] ELSE NumDays

IsWeekendOrdinal(o) == ((o + 6) % 7) \in {4, 5, 6}

\* the ordinals of the dates of a list that the call kept in its day set
InSetOrdinals(list) ==
    {Ord(list[i]) : i \in {j \in 1..Len(list) : list[j] \in ret[1].dates}}

\* S holds n consecutive calendar days
HasRun(S, n) == \E a \in S : \A k \in 0..(n - 1) : (a + k) \in S

\* C1: every site counted as available has, among its dates in the day set, a run
\* of consecutive days at least as long as the effective nights, and the count
\* returned is the number of such counted sites.
C1_Soundness ==
    Returned =>
        /\ \A i \in 1..Len(park_information) :
              ret[1].sites[i].counted =>
                  HasRun(InSetOrdinals(park_information[i].availabilities), NightsWanted)
        /\ ret[1].num_available <=
              Cardinality({i \in 1..Len(park_information) :
                  HasRun(InSetOrdinals(park_information[i].availabilities), NightsWanted)})

\* a site was counted on the defaulted nights value
C1_Witness ==
    /\ Returned
    /\ nights # None /\ nights[1] > NumDays /\ NumDays >= 2
    /\ ret[1].num_available >= 1
    /\ \E i \in 1..Len(park_information) : ~ret[1].sites[i].counted

\* C2 as stated: whatever the order of a site's list, a site whose sorted in-set
\* dates hold a run of at least the effective nights is counted, and that run is
\* printed as one option in ascending order.
C2_Completeness ==
    Returned =>
        \A i \in 1..Len(park_information) :
            LET S == InSetOrdinals(park_information[i].availabilities)
            IN (S # {} /\ HasRun(S, NightsWanted)) =>
                  /\ ret[1].sites[i].counted
                  /\ \E k \in 1..Len(ret[1].sites[i].options) :
                        LET o == ret[1].sites[i].options[k]
                        IN /\ Len(o) >= NightsWanted
                           /\ \A j \in 1..(Len(o) - 1) :
                                 toordinal(strptime(o[j + 1], INPUT_DATE_FORMAT)) =
                                 toordinal(strptime(o[j], INPUT_DATE_FORMAT)) + 1

\* C3 as stated: the day set is the Fridays, Saturdays and Sundays d with
\* start_date < d <= end_date.
C3_StartExcludedEndIncluded ==
    Returned =>
        ret[1].dates =
            {format_date(fromordinal(o), ISO_DATE_FORMAT_RESPONSE) :
                o \in {x \in (toordinal(start_date) + 1)..toordinal(end_date) :
                          IsWeekendOrdinal(x)}}

\* C3 amended: the day set is the Fridays, Saturdays and Sundays d with
\* start_date <= d < end_date; a site's dates outside it never reach its runs
\* and every date inside it does.
C3_DaySet ==
    Returned =>
        LET days == {format_date(fromordinal(o), ISO_DATE_FORMAT_RESPONSE) :
                        o \in {x \in toordinal(start_date)..(toordinal(end_date) - 1) :
                                  IsWeekendOrdinal(x)}}
        IN /\ ret[1].dates = days
           /\ \A i \in 1..Len(park_information) :
                 LET a == park_information[i].availabilities
                     r == ret[1].sites[i]
                 IN /\ {r.desired_available[j] : j \in 1..Len(r.desired_available)} =
                       {a[j] : j \in 1..Len(a)} \cap days
                    /\ \A k \in 1..Len(r.options) : \A j \in 1..Len(r.options[k]) :
                          format_date(strptime(r.options[k][j], INPUT_DATE_FORMAT),
                                      ISO_DATE_FORMAT_RESPONSE) \in days

\* the start day is a Friday that reached a site's runs, and the end day is a
\* free Sunday that did not
C3_Witness ==
    /\ Returned
    /\ \E i \in 1..Len(park_information) :
          LET a == park_information[i].availabilities
              r == ret[1].sites[i]
          IN /\ \E j \in 1..Len(r.desired_available) :
                   r.desired_available[j] = format_date(start_date, ISO_DATE_FORMAT_RESPONSE)
             /\ \E j \in 1..Len(a) :
                   a[j] = format_date(end_date, ISO_DATE_FORMAT_RESPONSE)
             /\ weekday(end_date) = 6
             /\ r.counted

\* C10: no printed option is longer than 3 days, and a call whose effective
\* nights is 4 or more (a range of 4 or more days without --nights included)
\* counts no site.
C10_NoRunBeyondWeekend ==
    Returned =>
        /\ \A i \in 1..Len(park_information) :
              \A k \in 1..Len(ret[1].sites[i].options) :
                  Len(ret[1].sites[i].options[k]) <= 3
        /\ NightsWanted >= 4 => ret[1].num_available = 0
        /\ (nights = None /\ NumDays > 3) => ret[1].num_available = 0

\* four consecutive free days from Thursday to Sunday in a range that covers them,
\* no --nights: three of them are kept and the site is not counted
C10_Witness ==
    /\ Returned
    /\ nights = None /\ NumDays >= 4
    /\ \E i \in 1..Len(park_information) :
          /\ Len(park_information[i].availabilities) = 4
          /\ HasRun({Ord(park_information[i].availabilities[j]) : j \in 1..4}, 4)
          /\ Len(ret[1].sites[i].desired_available) = 3
    /\ ret[1].num_available = 0

(***************************************************************************)
(* Properties of a run of the program.                                     *)
(***************************************************************************)
Exited == pc = "exit"

IsRequest(e) == e.kind \in {"availability", "metadata"}

\* the requests sent for park p of group g, in order
ParkRequests(g, p) ==
    SelectSeq(log, LAMBDA e : IsRequest(e) /\ e.group = g /\ e.park = p)

\* the parks whose iteration of main's loop ran to its end
Completed(g, p) ==
    \/ <<g, p>> \in skipped
    \/ \E r \in 1..Len(reports) : reports[r].group = g /\ reports[r].park = p

\* some park of group g printed a non-zero count
GroupFound(g) ==
    \E r \in 1..Len(reports) : reports[r].group = g /\ reports[r].current > 0

GroupCount == IF Grouped THEN Len(args.parks_dict[1]) ELSE 0

\* the calls of main: one per group of the file, or call 0 on the park list
Groups == IF Grouped THEN 1..GroupCount ELSE {0}

ParksOf(g) == IF Grouped THEN args.parks_dict[1][g].parks ELSE args.parks[1]

\* C4 as stated: in grouped mode every group is searched, and the process exits
\* with the number of groups that raised or found nothing.
C4_RaisedGroupCounted ==
    (Exited /\ Grouped) =>
        /\ \A g \in 1..GroupCount :
              \E i \in 1..Len(log) : log[i].kind = "search" /\ log[i].group = g
        /\ exit_code = Some(Cardinality({g \in 1..GroupCount :
                                            g \in errors \/ ~GroupFound(g)}))

\* C5 as stated: between the requests of two different parks of one list a sleep
\* has been taken.
C5_DelayBetweenParks ==
    \A i \in 1..Len(log) : \A j \in (i + 1)..Len(log) :
        (/\ IsRequest(log[i]) /\ IsRequest(log[j])
         /\ log[i].group = log[j].group /\ log[i].park # log[j].park)
        => \E k \in (i + 1)..(j - 1) : log[k].kind = "sleep"

\* C6: without an exception, a run on a park list exits with 0 when some park
\* printed a non-zero count and with 1 otherwise, and a run on a parks file exits
\* with the number of groups none of whose parks printed a non-zero count.
C6_ExitCode ==
    (Exited /\ errors = {}) =>
        IF Grouped
        THEN exit_code = Some(Cardinality({g \in 1..GroupCount : ~GroupFound(g)}))
        ELSE exit_code = Some(IF GroupFound(0) THEN 0 ELSE 1)

\* a parks file of two groups: one found sites after a park without them, the
\* other found none
C6_Witness ==
    /\ Exited /\ Grouped /\ errors = {}
    /\ GroupCount = 2
    /\ exit_code = Some(1)
    /\ \E r \in 1..Len(reports) : reports[r].current = 0 /\ GroupFound(reports[r].group)

\* the filter of get_park_information, as section 4.2 words it
Contributes(e, c) ==
    /\ e.status = "Available"
    /\ args.campsite_type # None => c.campsite_type = args.campsite_type[1]

InList(d, list) == \E j \in 1..Len(list) : list[j] = d

\* C7: a month whose request failed takes only its own dates out of the park's
\* map, the dates of the months that were fetched are all there; a park whose
\* name request failed prints no count and sets no flag, and the parks after it
\* in the list are still processed.
C7_FailedRequestsNonFatal ==
    /\ pc \in {"name", "sleep"} =>
          /\ \A m \in 1..Len(resps) : resps[m] # None =>
                \A k \in 1..Len(resps[m][1].campsites) :
                    LET c == resps[m][1].campsites[k]
                    IN \A x \in 1..Len(c.availabilities) :
                          Contributes(c.availabilities[x], c) =>
                              \E i \in 1..Len(park_information) :
                                  /\ park_information[i].site = c.campsite_id
                                  /\ InList(c.availabilities[x].date,
                                            park_information[i].availabilities)
          /\ \A i \in 1..Len(park_information) :
                \A j \in 1..Len(park_information[i].availabilities) :
                    \E m \in 1..Len(resps) :
                        /\ resps[m] # None
                        /\ \E k \in 1..Len(resps[m][1].campsites) :
                              LET c == resps[m][1].campsites[k]
                              IN /\ c.campsite_id = park_information[i].site
                                 /\ \E x \in 1..Len(c.availabilities) :
                                       c.availabilities[x].date =
                                           park_information[i].availabilities[j]
    /\ \A s \in skipped :
          \A r \in 1..Len(reports) : <<reports[r].group, reports[r].park>> # s
    /\ pc = "park_loop" => (availabilities <=> GroupFound(gi))
    /\ \A g \in Groups :
          (g \notin errors /\ (Exited \/ g < gi)) =>
              \A p \in 1..Len(ParksOf(g)) : Completed(g, p)

\* the first park of the list was skipped for want of a name; for the second
\* one the first month was fetched with free dates and the second month failed
C7_Witness ==
    /\ pc = "name" /\ idx = 2
    /\ <<gi, 1>> \in skipped
    /\ Len(resps) = 2 /\ resps[1] # None /\ resps[2] = None
    /\ park_information # << >>

\* the first-of-month anchors from the month of start_date to the month of end_date
ExpectedMonthParams ==
    LET lo == start_date.year * 12 + (start_date.month - 1)
        hi == end_date.year * 12 + (end_date.month - 1)
    IN [k \in 1..(hi - lo + 1) |->
           <<(lo + k - 1) \div 12, ((lo + k - 1) % 12) + 1, 1, ISO_DATE_FORMAT_REQUEST>>]

ExpectedRequests(g, p) ==
    [k \in 1..Len(ExpectedMonthParams) |->
        [kind |-> "availability", group |-> g, park |-> p, month |-> ExpectedMonthParams[k]]]
    \o <<[kind |-> "metadata", group |-> g, park |-> p, month |-> None]>>

IsPrefix(a, b) == Len(a) <= Len(b) /\ \A i \in 1..Len(a) : a[i] = b[i]

\* C8: the requests sent for a park are, in this order, one availability request
\* for each first of month from the month of start_date to the month of end_date
\* and then one name request; a park whose processing ran to its end sent them all.
C8_OneRequestPerMonth ==
    \A g \in Groups : \A p \in 1..Len(ParksOf(g)) :
        /\ IsPrefix(ParkRequests(g, p), ExpectedRequests(g, p))
        /\ Completed(g, p) => ParkRequests(g, p) = ExpectedRequests(g, p)
        /\ (g = gi /\ p = idx /\ pc = "name") =>
              Len(ParkRequests(g, p)) = Len(ExpectedMonthParams)

\* a range from June to the first of July: the park sent two availability
\* requests and a name request
C8_Witness ==
    /\ end_date = DateTime(2024, 7, 1)
    /\ \E g \in Groups : \E p \in 1..Len(ParksOf(g)) :
          /\ Completed(g, p)
          /\ Len(ParkRequests(g, p)) = 3
          /\ ParkRequests(g, p)[1].month = <<2024, 6, 1, ISO_DATE_FORMAT_REQUEST>>
          /\ ParkRequests(g, p)[2].month = <<2024, 7, 1, ISO_DATE_FORMAT_REQUEST>>

\* C9: in the map get_park_information returns, every date of a site's list is
\* "Available" for that site in a fetched payload, under a site whose type is the
\* filter when one is given; every such date of the payloads is in the map; no
\* site of the map has an empty list.
C9_OnlyAvailableOfType ==
    pc \in {"name", "sleep"} =>
        /\ \A i \in 1..Len(park_information) :
              /\ park_information[i].availabilities # << >>
              /\ \A j \in 1..Len(park_information[i].availabilities) :
                    \E m \in 1..Len(api_data) : \E k \in 1..Len(api_data[m].campsites) :
                        LET c == api_data[m].campsites[k]
                        IN /\ c.campsite_id = park_information[i].site
                           /\ \E x \in 1..Len(c.availabilities) :
                                 /\ c.availabilities[x].date =
                                       park_information[i].availabilities[j]
                                 /\ Contributes(c.availabilities[x], c)
        /\ \A i \in 1..Len(park_information) : \A j \in 1..Len(park_information) :
              park_information[i].site = park_information[j].site => i = j
        /\ \A m \in 1..Len(api_data) : \A k \in 1..Len(api_data[m].campsites) :
              LET c == api_data[m].campsites[k]
              IN \A x \in 1..Len(c.availabilities) :
                    Contributes(c.availabilities[x], c) =>
                        \E i \in 1..Len(park_information) :
                            /\ park_information[i].site = c.campsite_id
                            /\ InList(c.availabilities[x].date,
                                      park_information[i].availabilities)

\* with the filter STANDARD NONELECTRIC, a payload had the tent site "B" free and
\* site "A" free; the map holds "A" only
C9_Witness ==
    /\ pc = "name"
    /\ args.campsite_type = Some(STANDARD_NONELECTRIC)
    /\ \E m \in 1..Len(api_data) : \E k \in 1..Len(api_data[m].campsites) :
          LET c == api_data[m].campsites[k]
          IN /\ c.campsite_type = TENT_ONLY
             /\ \E x \in 1..Len(c.availabilities) : c.availabilities[x].status = "Available"
    /\ Len(park_information) = 1
    /\ park_information[1].site = "A"

====
